---- MODULE Spec2Model ----
(***************************************************************************)
(* TwitterTokenStrategy (src/src/index.js): one strategy instance, built   *)
(* by the constructor, serving authentication attempts.  An attempt is     *)
(* authenticate(req), then the callback of the signed GET issued by        *)
(* userProfile, then (when the verify callback defers) the call of         *)
(* `verified`.  What the strategy does to its collaborators (the OAuth     *)
(* transport, the verify callback, the host framework's success / fail /   *)
(* error) is recorded per attempt in `events`, in call order.              *)
(***************************************************************************)
EXTENDS Integers, Sequences, FiniteSets, TLC

VARIABLES
    self,      \* the instance fields written by the constructor
    pc,        \* per attempt: "idle", "fetching", "verifying" or "done"
    req,       \* per attempt: the request authenticate was called with
    events     \* per attempt: the calls made to the collaborators, in order

vars == <<self, pc, req, events>>

(***************************************************************************)
(* Bounds of the model.                                                    *)
(***************************************************************************)
NumAttempts == 2
MaxTokenLen == 2

Attempts == 1..NumAttempts

(***************************************************************************)
(* JavaScript values.                                                      *)
(***************************************************************************)
Undefined == [type |-> "undefined"]
Null == [type |-> "null"]
Str(s) == [type |-> "string", val |-> s]
Bool(b) == [type |-> "boolean", val |-> b]
\* A number that holds an integer: `n` is its decimal digits.
Num(n) == [type |-> "number", val |-> n]
Obj(class, props) == [type |-> "object", class |-> class, props |-> props]

\* ToBoolean, as `||`, `&&`, `!` and `if` apply it.
Truthy(v) ==
    CASE v.type \in {"undefined", "null"} -> FALSE
      [] v.type = "string" -> Len(v.val) > 0
      [] v.type = "boolean" -> v.val
      [] v.type = "number" -> v.val # "0"
      [] OTHER -> TRUE

\* a || b
Or(a, b) == IF Truthy(a) THEN a ELSE b

\* a && b
And(a, b) == IF Truthy(a) THEN b ELSE a

\* obj[key]: a property the object does not carry reads as undefined.
Get(obj, key) == IF key \in DOMAIN obj.props THEN obj.props[key] ELSE Undefined

\* String.prototype.indexOf, 0-based, -1 when `t` does not occur in `s`.
IndexOf(s, t) ==
    LET hits == {i \in 0..(Len(s) - Len(t)) : SubSeq(s, i + 1, i + Len(t)) = t}
    IN  IF hits = {} THEN -1 ELSE CHOOSE i \in hits : \A j \in hits : i <= j

\* s.split(sep)[0] for a one-character separator.
SplitFirst(s, sep) ==
    LET i == IndexOf(s, sep)
    IN  IF i = -1 THEN s ELSE SubSeq(s, 1, i)

(***************************************************************************)
(* The constructor.                                                        *)
(***************************************************************************)
DefaultTokenField == "oauth_token"
DefaultTokenSecretField == "oauth_token_secret"
DefaultUserIdField == "user_id"
\* The pathname of https://api.twitter.com/1.1/account/verify_credentials.json.
\* A profile URL is modelled by its pathname: the configured URLs carry no
\* query string, and the host plays no part in what userProfile does.
DefaultUserProfileURL == "/1.1/account/verify_credentials.json"

OptionNames ==
    {"oauthTokenField", "oauthTokenSecretField", "userIdField", "includeEmail",
     "userProfileURL", "includeStatus", "includeEntities", "passReqToCallback"}

\* An options object: the options not listed in `given` are absent.
Options(given) ==
    Obj("Object", [k \in OptionNames |-> IF k \in DOMAIN given THEN given[k] ELSE Undefined])

\* (options.x !== undefined) ? options.x : dflt
DefinedOr(v, dflt) == IF v # Undefined THEN v ELSE dflt

Construct(options) ==
    [ _oauthTokenField |-> Or(Get(options, "oauthTokenField"), Str(DefaultTokenField)).val,
      _oauthTokenSecretField |->
          Or(Get(options, "oauthTokenSecretField"), Str(DefaultTokenSecretField)).val,
      _userIdField |-> Or(Get(options, "userIdField"), Str(DefaultUserIdField)).val,
      _includeEmail |-> DefinedOr(Get(options, "includeEmail"), Bool(FALSE)),
      _userProfileURL |-> Or(Get(options, "userProfileURL"), Str(DefaultUserProfileURL)).val,
      _includeStatus |-> DefinedOr(Get(options, "includeStatus"), Bool(TRUE)),
      _includeEntities |-> DefinedOr(Get(options, "includeEntities"), Bool(TRUE)),
      \* set by the base class from the same options object
      _passReqToCallback |-> Get(options, "passReqToCallback") ]

(***************************************************************************)
(* authenticate: what it reads from the request.                           *)
(***************************************************************************)
\* Denied, reading the signal from the body instead of the query.
Denied_FromBody(r) == And(r.body, Get(r.body, "denied"))

\* req.query && req.query.denied
Denied(r) == And(r.query, Get(r.query, "denied"))

\* Field, looking in the query before the body.
Field_QueryFirst(r, field) ==
    Or(And(r.query, Get(r.query, field)), And(r.body, Get(r.body, field)))

\* (req.body && req.body[field]) || (req.query && req.query[field])
Field(r, field) == Or(And(r.body, Get(r.body, field)), And(r.query, Get(r.query, field)))

Token(s, r) == Field(r, s._oauthTokenField)

TokenSecret(s, r) == Field(r, s._oauthTokenSecretField)

\* UserId, without the derivation from the token.
UserId_NoFallback(s, r) == Field(r, s._userIdField)

\* ... || (token && token.split('-')[0])
UserId(s, r) ==
    LET token == Token(s, r)
    IN  Or(Field(r, s._userIdField),
           IF Truthy(token) THEN Str(SplitFirst(token.val, "-")) ELSE token)

\* MissingMessage, naming the default fields whatever the configuration.
MissingMessage_Defaults(s) ==
    "You should provide " \o DefaultTokenField \o " and " \o DefaultTokenSecretField

MissingMessage(s) ==
    "You should provide " \o s._oauthTokenField \o " and " \o s._oauthTokenSecretField

(***************************************************************************)
(* userProfile: the URL of the signed GET.                                 *)
(***************************************************************************)
ShowSuffix == "/users/show.json"

\* url.pathname.indexOf('/users/show.json') == url.pathname.length - '/users/show.json'.length
WantsUserId(pathname) == IndexOf(pathname, ShowSuffix) = Len(pathname) - Len(ShowSuffix)

\* The URL handed to the transport: the pathname and the query parameters
\* uri.format writes after it, as <<name, value>> pairs.
ProfileURL(s, params) ==
    [ pathname |-> s._userProfileURL,
      query |->
          (IF WantsUserId(s._userProfileURL)
              THEN {<<"user_id", Get(params, "user_id")>>} ELSE {})
          \cup (IF s._includeEmail = Bool(TRUE) THEN {<<"include_email", Bool(TRUE)>>} ELSE {})
          \cup (IF s._includeStatus = Bool(FALSE) THEN {<<"skip_status", Bool(TRUE)>>} ELSE {})
          \cup (IF s._includeEntities = Bool(FALSE)
                   THEN {<<"include_entities", Bool(FALSE)>>} ELSE {}) ]

(***************************************************************************)
(* userProfile: the transport's answer.                                    *)
(***************************************************************************)
FetchErrorMessage == "Failed to fetch user profile"

\* InternalOAuthError, handing on the transport's error as it came.
InternalOAuthError_Raw(message, cause) == cause

\* new InternalOAuthError(message, cause)
InternalOAuthError(message, cause) ==
    Obj("InternalOAuthError", [message |-> Str(message), oauthError |-> cause])

\* The response bodies of the model and what JSON.parse makes of each.
BodyWithIdStr == "{\"id\":1234,\"id_str\":\"1234\",\"screen_name\":\"ghaiklor\"}"
BodyWithId == "{\"id\":42,\"screen_name\":\"ghaiklor\"}"
BodyNotJSON == "not a JSON"
BodyNull == "null"

SyntaxError == Obj("SyntaxError", [message |-> Str("Unexpected token")])
TypeError == Obj("TypeError", [message |-> Str("Cannot read property of null")])

RECURSIVE Decimal(_)
Decimal(n) ==
    LET digit == SubSeq("0123456789", (n % 10) + 1, (n % 10) + 1)
    IN  IF n < 10 THEN digit ELSE Decimal(n \div 10) \o digit

\* The integer a string of at most nine decimal digits writes.
RECURSIVE DigitsValue(_)
DigitsValue(s) ==
    IF Len(s) = 0 THEN 0
    ELSE DigitsValue(SubSeq(s, 1, Len(s) - 1)) * 10
             + IndexOf("0123456789", SubSeq(s, Len(s), Len(s)))

\* Integers beyond 32 bits are held as <<high, low>>, high * 10^8 + low.
LimbBase == 100000000
Limbs(digits) ==
    IF Len(digits) <= 8 THEN <<0, DigitsValue(digits)>>
    ELSE <<DigitsValue(SubSeq(digits, 1, Len(digits) - 8)),
           DigitsValue(SubSeq(digits, Len(digits) - 7, Len(digits)))>>
LimbsBelow(x, y) == x[1] < y[1] \/ (x[1] = y[1] /\ x[2] < y[2])
LimbsDigits(x) ==
    IF x[1] = 0 THEN Decimal(x[2])
    ELSE Decimal(x[1]) \o SubSeq("00000000", 1, 8 - Len(Decimal(x[2]))) \o Decimal(x[2])

\* 2^53, 2^54, 2^55 and 2^56: below 2^53 a double holds every integer, from
\* 2^(52+k) up to 2^(53+k) it holds the multiples of 2^k.
PowersOfTwo ==
    << <<90071992, 54740992>>, <<180143985, 9481984>>,
       <<360287970, 18963968>>, <<720575940, 37927936>> >>

\* The number of binary digits a double drops from the integer x: ulp = 2^k.
Exponent(x) == Cardinality({i \in 1..3 : ~LimbsBelow(x, PowersOfTwo[i])})

\* n rounded to the nearest multiple of ulp, a tie to the even multiple.
RoundToMultiple(n, ulp) ==
    LET rest == n % ulp
        down == n - rest
    IN  IF 2 * rest < ulp THEN down
        ELSE IF 2 * rest > ulp THEN down + ulp
        ELSE IF (down \div ulp) % 2 = 0 THEN down
        ELSE down + ulp

Carry(high, low) == IF low = LimbBase THEN <<high + 1, 0>> ELSE <<high, low>>

\* The double nearest to the integer a JSON number literal writes, ties to
\* the even significand, as JSON.parse reads a number (literals below 2^56).
JSONNumber(digits) ==
    Num(LimbsDigits(Carry(Limbs(digits)[1],
                          RoundToMultiple(Limbs(digits)[2], 2 ^ Exponent(Limbs(digits))))))

\* A provider document: `id` is the number literal it writes (or undefined),
\* `id_str` the string it writes (or undefined).
Document(id, idStr) == [id |-> id, id_str |-> idStr]

\* The JSON text of a provider document.
Serialize(doc) ==
    "{" \o (IF doc.id # Undefined THEN "\"id\":" \o doc.id.val \o "," ELSE "")
        \o (IF doc.id_str # Undefined THEN "\"id_str\":\"" \o doc.id_str.val \o "\"," ELSE "")
        \o "\"screen_name\":\"ghaiklor\"}"

\* The object JSON.parse makes of the text of a provider document.
Parsed(doc) ==
    Obj("Object",
        (IF doc.id # Undefined THEN [id |-> JSONNumber(doc.id.val)] ELSE << >>)
        @@ (IF doc.id_str # Undefined THEN [id_str |-> doc.id_str] ELSE << >>)
        @@ [screen_name |-> Str("ghaiklor")])

\* The number literals and the strings the provider documents of the model
\* identify a user by.
IdLiterals ==
    {Str("42"), Str("1234"), Str("9007199254740992"), Str("9007199254740993"),
     Str("9007199254740995"), Str("18014398509481986")}
IdStrings == {Str("1234"), Str("9007199254740993")}
Documents ==
    {Document(id, idStr) : id \in IdLiterals \cup {Undefined}, idStr \in IdStrings \cup {Undefined}}

\* JSON.parse(body): [ok |-> TRUE, value |-> v], or [ok |-> FALSE, thrown |-> e].
JSONParse(body) ==
    IF body = Str(BodyNull) THEN [ok |-> TRUE, value |-> Null]
    ELSE IF \E doc \in Documents : body = Str(Serialize(doc))
        THEN [ok |-> TRUE,
              value |-> Parsed(CHOOSE doc \in Documents : body = Str(Serialize(doc)))]
    ELSE [ok |-> FALSE, thrown |-> SyntaxError]

\* String(v)
JSString(v) ==
    CASE v.type = "string" -> v.val
      [] v.type = "number" -> v.val
      [] v.type = "undefined" -> "undefined"
      [] v.type = "null" -> "null"
      [] OTHER -> "[object Object]"

\* BuildProfile, wrapping the fault of the try block as a fetch failure.
BuildProfile_Wrapped(body) ==
    LET parsed == JSONParse(body)
    IN  IF parsed.ok /\ parsed.value # Null
            THEN [ok |-> TRUE, value |-> Obj("Object", [provider |-> Str("twitter")])]
            ELSE [ok |-> FALSE,
                  thrown |-> Obj("InternalOAuthError",
                                 [message |-> Str("Failed to fetch user profile"),
                                  oauthError |-> SyntaxError])]

\* The body of the try block: [ok |-> TRUE, value |-> profile], or the fault
\* thrown by JSON.parse or by reading a property of a null `json`.
BuildProfile(body) ==
    LET parsed == JSONParse(body)
        json == parsed.value
    IN  IF ~parsed.ok THEN parsed
        ELSE IF json = Null THEN [ok |-> FALSE, thrown |-> TypeError]
        ELSE [ok |-> TRUE,
              value |-> Obj("Object",
                  [provider |-> Str("twitter"),
                   id |-> IF Truthy(Get(json, "id_str"))
                             THEN Get(json, "id_str")
                             ELSE Str(JSString(Get(json, "id"))),
                   username |-> Get(json, "screen_name"),
                   displayName |-> Get(json, "name"),
                   emails |-> Get(json, "email"),
                   photos |-> Get(json, "profile_image_url_https"),
                   _raw |-> body,
                   _json |-> json])]

(***************************************************************************)
(* The calls to the collaborators.                                         *)
(***************************************************************************)
\* this._loadUserProfile(token, tokenSecret, params, callback): the base class
\* passes its arguments on to userProfile.
LoadUserProfile(token, tokenSecret, params) ==
    [ev |-> "loadUserProfile", token |-> token, tokenSecret |-> tokenSecret,
     params |-> params]
\* this._oauth.get(url, token, tokenSecret, callback)
OAuthGet(url, token, tokenSecret) ==
    [ev |-> "get", url |-> url, token |-> token, tokenSecret |-> tokenSecret]
\* The transport calls the callback of the signed GET with (error, body).
Response(error, body) == [ev |-> "response", error |-> error, body |-> body]
\* userProfile calls done(error, profile).
DoneCall(error, profile) == [ev |-> "done", error |-> error, profile |-> profile]
VerifyCall(args) == [ev |-> "verify", args |-> args]
VerifiedCall(error, user, info) ==
    [ev |-> "verified", error |-> error, user |-> user, info |-> info]
Success(user, info) == [ev |-> "success", user |-> user, info |-> info]
Fail(info) == [ev |-> "fail", info |-> info]
Error(err) == [ev |-> "error", err |-> err]

\* The callback authenticate hands to the verify callback.
VerifiedFn == [type |-> "function", name |-> "verified"]

(***************************************************************************)
(* The callbacks of authenticate.                                          *)
(***************************************************************************)
\* Verified, testing the user before the error.
Verified_UserFirst(error, user, info) ==
    IF ~Truthy(user) THEN Fail(info)
    ELSE IF Truthy(error) THEN Error(error)
    ELSE Success(user, info)

\* verified(error, user, info): what it reports.
Verified(error, user, info) ==
    IF Truthy(error) THEN Error(error)
    ELSE IF ~Truthy(user) THEN Fail(info)
    ELSE Success(user, info)

\* VerifyArgs, never forwarding the request.
VerifyArgs_NoReq(s, r, profile) == <<Token(s, r), TokenSecret(s, r), profile, VerifiedFn>>

\* The arguments of this._verify.
VerifyArgs(s, r, profile) ==
    IF Truthy(s._passReqToCallback)
        THEN <<r, Token(s, r), TokenSecret(s, r), profile, VerifiedFn>>
        ELSE <<Token(s, r), TokenSecret(s, r), profile, VerifiedFn>>

\* What the verify callback does while it runs: it calls `verified` with
\* `result` before it returns (sync) or leaves that to a later turn, and it
\* returns or raises VerifyFault.
VerifyFault == Obj("Error", [message |-> Str("raised by verify")])

RunVerify(sync, result) ==
    IF sync
        THEN <<VerifiedCall(result[1], result[2], result[3]),
               Verified(result[1], result[2], result[3])>>
        ELSE <<>>

\* The callback given to _loadUserProfile, called with (error) or with
\* (null, profile): the events of the call, and whether it raised.
Loaded(s, r, error, profile, sync, throws, result) ==
    IF Truthy(error)
        THEN [events |-> <<Error(error)>>, raised |-> FALSE]
        ELSE [events |-> <<VerifyCall(VerifyArgs(s, r, profile))>> \o RunVerify(sync, result),
              raised |-> throws]

\* done(error, profile) as userProfile calls it: the call, and what the
\* callback given to _loadUserProfile does with it.
Done(s, r, error, profile, sync, throws, result) ==
    LET did == Loaded(s, r, error, profile, sync, throws, result)
    IN  [events |-> <<DoneCall(error, profile)>> \o did.events, raised |-> did.raised]

\* The callback of this._oauth.get in userProfile: the events of the call
\* and whether `verified` is still to be called.
OnResponse(s, r, error, body, sync, throws, result) ==
    IF Truthy(error)
        THEN [events |-> Done(s, r, InternalOAuthError(FetchErrorMessage, error),
                              Undefined, sync, throws, result).events,
              pending |-> FALSE]
        ELSE LET built == BuildProfile(body)
             IN  IF ~built.ok
                     \* catch (e) { done(e) } for a fault of the try block's own
                     THEN [events |-> Done(s, r, built.thrown, Undefined,
                                           sync, throws, result).events,
                           pending |-> FALSE]
                     ELSE LET first == Done(s, r, Null, built.value, sync, throws, result)
                          IN  [events |->
                                   first.events \o
                                   \* catch (e) { done(e) } for a fault raised in done
                                   (IF first.raised
                                       THEN Done(s, r, VerifyFault, Undefined,
                                                 sync, throws, result).events
                                       ELSE <<>>),
                               pending |-> ~sync]

(***************************************************************************)
(* The inputs of the model.                                                *)
(***************************************************************************)
TokenChars == {"-", "a"}

RECURSIVE Strings(_)
Strings(n) ==
    IF n = 0 THEN {""}
    ELSE LET shorter == Strings(n - 1)
         IN  shorter \cup {s \o c : s \in shorter, c \in TokenChars}

\* The field names a client writes its credentials under.
ClientNames ==
    { [token |-> "oauth_token", secret |-> "oauth_token_secret", userId |-> "user_id"],
      [token |-> "access_token", secret |-> "access_secret", userId |-> "uid"] }

RequestKeys ==
    UNION {{n.token, n.secret, n.userId} : n \in ClientNames} \cup {"denied"}

Params(names, token, secret, userId, denied) ==
    Obj("Object",
        [k \in RequestKeys |->
            CASE k = names.token -> token
              [] k = names.secret -> secret
              [] k = names.userId -> userId
              [] k = "denied" -> denied
              [] OTHER -> Undefined])

BodyTokens == {Undefined} \cup {Str(s) : s \in Strings(MaxTokenLen)}
QueryTokens == {Undefined, Str(""), Str("q-1")}
BodySecrets == {Undefined, Str(""), Str("bs")}
QuerySecrets == {Undefined, Str("qs")}
BodyUserIds == {Undefined, Str(""), Str("bu")}
QueryUserIds == {Undefined, Str("qu")}
DeniedValues == {Undefined, Str("xxx")}

Requests ==
    UNION {
        { [body |-> b, query |-> q] :
            b \in {Undefined} \cup
                  {Params(n, t, s, u, Undefined) :
                      t \in BodyTokens, s \in BodySecrets, u \in BodyUserIds},
            q \in {Undefined} \cup
                  {Params(n, t, s, u, d) :
                      t \in QueryTokens, s \in QuerySecrets, u \in QueryUserIds,
                      d \in DeniedValues} }
        : n \in ClientNames }

\* The requests of the tests, and their neighbours.
Body(token, secret) ==
    Params(CHOOSE n \in ClientNames : n.token = DefaultTokenField,
           token, secret, Undefined, Undefined)

FlowRequests ==
    { [body |-> Body(Str("token"), Str("token_secret")), query |-> Undefined],
      [body |-> Undefined, query |-> Body(Str("token"), Str("token_secret"))],
      [body |-> Body(Str("12-ab"), Undefined), query |-> Undefined],
      [body |-> Undefined, query |-> Undefined],
      [body |-> Body(Str("token"), Str("token_secret")), query |-> Params(
          CHOOSE n \in ClientNames : n.token = DefaultTokenField,
          Undefined, Undefined, Undefined, Str(""))],
      [body |-> Body(Str("token"), Str("token_secret")),
       query |-> Params(CHOOSE n \in ClientNames : n.token = DefaultTokenField,
                        Undefined, Undefined, Undefined, Str("xxx"))] }

TransportErrors == {Null, Str("Some error occurred")}
TransportBodies == {Str(BodyWithIdStr), Str(BodyWithId), Str(BodyNotJSON), Str(BodyNull)}

User == Obj("User", [name |-> Str("ghaiklor")])
Info == Obj("Object", [info |-> Str("foo")])
VerifyResults ==
    {<<e, u, i>> : e \in {Null, Obj("Error", [message |-> Str("Some error occurred")])},
                   u \in {Bool(FALSE), User},
                   i \in {Undefined, Info}}

FieldOptions ==
    { << >>,
      [oauthTokenField |-> Str("access_token")],
      [oauthTokenField |-> Str("access_token"),
       oauthTokenSecretField |-> Str("access_secret"),
       userIdField |-> Str("uid")] }

OptionSets ==
    {Options(f) : f \in FieldOptions}
    \cup {Options(f @@ [passReqToCallback |-> Bool(TRUE)]) : f \in FieldOptions}

ProfileURLs ==
    { Undefined,
      Str("/1.1/account/verify_credentials.json"),
      Str("/1.1/users/show.json"),
      Str("/users/show.json"),
      Str("/users/show.jsonx"),
      Str("/1.1/users.json"),
      Str("/users/show.json/1.1/users/show.json"),
      Str("/") }

Flags == {Undefined, Bool(TRUE), Bool(FALSE)}

URLOptionSets ==
    { Options([userProfileURL |-> u, includeEmail |-> e, includeStatus |-> st,
               includeEntities |-> en]) :
        u \in ProfileURLs, e \in Flags, st \in Flags, en \in Flags }

URLRequests ==
    { [body |-> Body(Str("12-ab"), Str("token_secret")), query |-> Undefined],
      [body |-> Undefined, query |-> Undefined] }

(***************************************************************************)
(* The state machine.                                                      *)
(***************************************************************************)
\* No attempt has started.
Idle ==
    /\ pc = [a \in Attempts |-> "idle"]
    /\ req = [a \in Attempts |-> Undefined]
    /\ events = [a \in Attempts |-> << >>]

Init ==
    /\ self \in {Construct(o) : o \in OptionSets}
    /\ Idle

\* Authenticate, failing a request without a token secret as it fails a
\* request without a token.
Authenticate_NeedsSecret(a, r) ==
    /\ pc[a] = "idle"
    /\ req' = [req EXCEPT ![a] = r]
    /\ IF Truthy(Denied(r))
           THEN /\ events' = [events EXCEPT ![a] = <<Fail(Undefined)>>]
                /\ pc' = [pc EXCEPT ![a] = "done"]
       ELSE IF ~Truthy(Token(self, r)) \/ ~Truthy(TokenSecret(self, r))
           THEN /\ events' = [events EXCEPT ![a] = <<Fail(Obj("Object",
                                   [message |-> Str(MissingMessage(self))]))>>]
                /\ pc' = [pc EXCEPT ![a] = "done"]
       ELSE LET params == Obj("Object", [user_id |-> UserId(self, r)])
            IN  /\ events' = [events EXCEPT ![a] =
                       <<LoadUserProfile(Token(self, r), TokenSecret(self, r), params),
                         OAuthGet(ProfileURL(self, params),
                                  Token(self, r), TokenSecret(self, r))>>]
                /\ pc' = [pc EXCEPT ![a] = "fetching"]
    /\ UNCHANGED self

\* authenticate(req), up to the call of this._oauth.get in userProfile.
Authenticate(a, r) ==
    /\ pc[a] = "idle"
    /\ req' = [req EXCEPT ![a] = r]
    /\ IF Truthy(Denied(r))
           THEN /\ events' = [events EXCEPT ![a] = <<Fail(Undefined)>>]
                /\ pc' = [pc EXCEPT ![a] = "done"]
       ELSE IF ~Truthy(Token(self, r))
           THEN /\ events' = [events EXCEPT ![a] = <<Fail(Obj("Object",
                                   [message |-> Str(MissingMessage(self))]))>>]
                /\ pc' = [pc EXCEPT ![a] = "done"]
       ELSE LET params == Obj("Object", [user_id |-> UserId(self, r)])
            IN  /\ events' = [events EXCEPT ![a] =
                       <<LoadUserProfile(Token(self, r), TokenSecret(self, r), params),
                         OAuthGet(ProfileURL(self, params),
                                  Token(self, r), TokenSecret(self, r))>>]
                /\ pc' = [pc EXCEPT ![a] = "fetching"]
    /\ UNCHANGED self

\* TransportAnswers, reading the request of the attempt started last on the
\* instance instead of the request of its own call.
TransportAnswers_SharedRequest(a, error, body, sync, throws, result) ==
    /\ pc[a] = "fetching"
    /\ LET started == {b \in Attempts : pc[b] # "idle"}
           last == CHOOSE b \in started : \A c \in started : c <= b
           did == OnResponse(self, req[last], error, body, sync, throws, result)
       IN  /\ events' = [events EXCEPT ![a] = @ \o <<Response(error, body)>> \o did.events]
           /\ pc' = [pc EXCEPT ![a] = IF did.pending THEN "verifying" ELSE "done"]
    /\ UNCHANGED <<self, req>>

\* The transport answers the signed GET: the callback given to this._oauth.get.
TransportAnswers(a, error, body, sync, throws, result) ==
    /\ pc[a] = "fetching"
    /\ LET did == OnResponse(self, req[a], error, body, sync, throws, result)
       IN  /\ events' = [events EXCEPT ![a] = @ \o <<Response(error, body)>> \o did.events]
           /\ pc' = [pc EXCEPT ![a] = IF did.pending THEN "verifying" ELSE "done"]
    /\ UNCHANGED <<self, req>>

\* The verify callback, having returned, calls `verified` in a later turn.
VerifyCallsBack(a, result) ==
    /\ pc[a] = "verifying"
    /\ events' = [events EXCEPT ![a] =
           @ \o <<VerifiedCall(result[1], result[2], result[3]),
                  Verified(result[1], result[2], result[3])>>]
    /\ pc' = [pc EXCEPT ![a] = "done"]
    /\ UNCHANGED <<self, req>>

\* One attempt on the requests of the tests, under every answer of the
\* transport and every behaviour of the verify callback.
Next ==
    \/ \E r \in FlowRequests : Authenticate(1, r)
    \/ \E e \in TransportErrors, b \in TransportBodies, sync \in BOOLEAN,
          throws \in BOOLEAN, result \in VerifyResults :
           TransportAnswers(1, e, b, sync, throws, result)
    \/ \E result \in VerifyResults : VerifyCallsBack(1, result)

Spec == Init /\ [][Next]_vars

\* One attempt on every request of Requests, the verify callback accepting
\* the profile at once.
NextRequests ==
    \/ \E r \in Requests : Authenticate(1, r)
    \/ \E e \in TransportErrors :
           TransportAnswers(1, e, Str(BodyWithIdStr), TRUE, FALSE, <<Null, User, Info>>)

SpecRequests == Init /\ [][NextRequests]_vars

\* One attempt under every configuration of the profile URL.
InitURLs ==
    /\ self \in {Construct(o) : o \in URLOptionSets}
    /\ Idle

NextURLs ==
    \/ \E r \in URLRequests : Authenticate(1, r)
    \/ \E e \in TransportErrors :
           TransportAnswers(1, e, Str(BodyWithIdStr), TRUE, FALSE, <<Null, User, Info>>)

SpecURLs == InitURLs /\ [][NextURLs]_vars

\* One attempt under every provider document.
ProfileBodies == {Str(Serialize(doc)) : doc \in Documents}

NextProfiles ==
    \/ \E r \in FlowRequests : Authenticate(1, r)
    \/ \E e \in TransportErrors, b \in ProfileBodies :
           TransportAnswers(1, e, b, TRUE, FALSE, <<Null, User, Info>>)

SpecProfiles == Init /\ [][NextProfiles]_vars

\* Several attempts on one instance, their steps interleaved in every order.
ConcurrentRequests ==
    { [body |-> Body(Str("token"), Str("token_secret")), query |-> Undefined],
      [body |-> Body(Str("12-ab"), Undefined), query |-> Undefined],
      [body |-> Undefined, query |-> Undefined],
      [body |-> Body(Str("token"), Str("token_secret")),
       query |-> Params(CHOOSE n \in ClientNames : n.token = DefaultTokenField,
                        Undefined, Undefined, Undefined, Str("xxx"))] }

ConcurrentResults == {<<Null, User, Info>>, <<Null, Bool(FALSE), Info>>}

NextConcurrent ==
    \/ \E a \in Attempts, r \in ConcurrentRequests : Authenticate(a, r)
    \/ \E a \in Attempts, e \in TransportErrors, sync \in BOOLEAN,
          result \in ConcurrentResults :
           TransportAnswers(a, e, Str(BodyWithIdStr), sync, FALSE, result)
    \/ \E a \in Attempts, result \in ConcurrentResults : VerifyCallsBack(a, result)

SpecConcurrent == Init /\ [][NextConcurrent]_vars

(***************************************************************************)
(* What an attempt did, read off its events.                               *)
(***************************************************************************)
IsOutcome(e) == e.ev \in {"success", "fail", "error"}
Outcomes(a) == SelectSeq(events[a], IsOutcome)
IsGet(e) == e.ev = "get"
Gets(a) == SelectSeq(events[a], IsGet)
IsVerifyCall(e) == e.ev = "verify"
VerifyCalls(a) == SelectSeq(events[a], IsVerifyCall)
IsDoneCall(e) == e.ev = "done"
DoneCalls(a) == SelectSeq(events[a], IsDoneCall)

\* The request carries `key` in its body (its query): the property is there.
InBody(r, key) == r.body # Undefined /\ r.body.props[key] # Undefined
InQuery(r, key) == r.query # Undefined /\ r.query.props[key] # Undefined
\* The request's query carries a denied signal.
HasDenied(r) == InQuery(r, "denied") /\ r.query.props["denied"] # Str("")

(***************************************************************************)
(* C1: one authenticate call reports exactly one terminal outcome among    *)
(* success, fail and error: never more than one, and one once the attempt  *)
(* has no callback left to run.                                            *)
(***************************************************************************)
C1_ExactlyOneOutcome ==
    \A a \in Attempts :
        /\ Len(Outcomes(a)) <= 1
        /\ pc[a] = "done" => Len(Outcomes(a)) = 1

(***************************************************************************)
(* C2: a request whose query carries a denied signal is reported Fail,     *)
(* whatever credentials it carries, with no call to the transport and no   *)
(* call to the verify callback.                                            *)
(***************************************************************************)
C2_DeniedFails ==
    \A a \in Attempts :
        (pc[a] # "idle" /\ HasDenied(req[a])) =>
            /\ pc[a] = "done"
            /\ events[a] = <<[ev |-> "fail", info |-> Undefined]>>
            /\ Gets(a) = << >>
            /\ VerifyCalls(a) = << >>

\* A denied request that carries a token and a secret in its body has been
\* authenticated.
C2_Witness ==
    \E a \in Attempts :
        /\ pc[a] = "done"
        /\ HasDenied(req[a])
        /\ InBody(req[a], self._oauthTokenField)
        /\ InBody(req[a], self._oauthTokenSecretField)
        /\ Len(Outcomes(a)) = 1

(***************************************************************************)
(* C3: a request that is not denied and carries no token under the         *)
(* configured token field, in body or query, is reported Fail with the     *)
(* message 'You should provide <oauthTokenField> and                       *)
(* <oauthTokenSecretField>' of the configured names, with no call to the   *)
(* transport and no call to the verify callback.                           *)
(***************************************************************************)
C3_MissingTokenFails ==
    \A a \in Attempts :
        ( /\ pc[a] # "idle"
          /\ ~HasDenied(req[a])
          /\ ~InBody(req[a], self._oauthTokenField)
          /\ ~InQuery(req[a], self._oauthTokenField) ) =>
            /\ pc[a] = "done"
            /\ events[a] =
                   <<[ev |-> "fail",
                      info |-> Obj("Object",
                          [message |-> Str("You should provide " \o self._oauthTokenField
                                           \o " and " \o self._oauthTokenSecretField)])]>>
            /\ self._oauthTokenField = "oauth_token"
                   /\ self._oauthTokenSecretField = "oauth_token_secret" =>
                   events[a][1].info.props.message =
                       Str("You should provide oauth_token and oauth_token_secret")
            /\ self._oauthTokenField = "access_token"
                   /\ self._oauthTokenSecretField = "access_secret" =>
                   events[a][1].info.props.message =
                       Str("You should provide access_token and access_secret")

\* Under overridden field names, a request that carries its token under the
\* default name only has been authenticated.
C3_Witness ==
    \E a \in Attempts :
        /\ pc[a] = "done"
        /\ self._oauthTokenField = "access_token"
        /\ self._oauthTokenSecretField = "access_secret"
        /\ ~HasDenied(req[a])
        /\ InBody(req[a], "oauth_token")
        /\ ~InBody(req[a], "access_token")
        /\ ~InQuery(req[a], "access_token")
        /\ Len(Outcomes(a)) = 1

(***************************************************************************)
(* C4: a call verified(error, user, info) reports Error(error) when error  *)
(* is truthy, whatever user and info are; Fail(info) when error and user   *)
(* are falsy; Success(user, info) otherwise, user and info unchanged.      *)
(***************************************************************************)
C4_VerifiedMapping ==
    \A a \in Attempts : \A i \in 1..Len(events[a]) :
        events[a][i].ev = "verified" =>
            LET c == events[a][i]
            IN  /\ i < Len(events[a])
                /\ events[a][i + 1] =
                       IF Truthy(c.error) THEN [ev |-> "error", err |-> c.error]
                       ELSE IF Truthy(c.user)
                           THEN [ev |-> "success", user |-> c.user, info |-> c.info]
                       ELSE [ev |-> "fail", info |-> c.info]

\* verified has been called with a truthy error and a truthy user.
C4_Witness ==
    \E a \in Attempts : \E i \in 1..Len(events[a]) :
        /\ events[a][i].ev = "verified"
        /\ Truthy(events[a][i].error)
        /\ Truthy(events[a][i].user)
        /\ events[a][i].info # Undefined

(***************************************************************************)
(* C5: when the transport reports an error, userProfile calls done with a  *)
(* new fault that carries the message 'Failed to fetch user profile' and   *)
(* wraps the cause, never with the raw error, and with no profile;         *)
(* authenticate reports Error with that fault and never calls verify.      *)
(***************************************************************************)
C5_FetchFailureWrapped ==
    \A a \in Attempts : \A i \in 1..Len(events[a]) :
        (events[a][i].ev = "response" /\ Truthy(events[a][i].error)) =>
            LET cause == events[a][i].error
                fault == [type |-> "object", class |-> "InternalOAuthError",
                          props |-> [message |-> Str("Failed to fetch user profile"),
                                     oauthError |-> cause]]
            IN  /\ Len(events[a]) = i + 2
                /\ events[a][i + 1] = [ev |-> "done", error |-> fault, profile |-> Undefined]
                /\ events[a][i + 1].error # cause
                /\ events[a][i + 2] = [ev |-> "error", err |-> fault]
                /\ VerifyCalls(a) = << >>
                /\ pc[a] = "done"

\* The transport has answered an attempt's signed GET with an error.
C5_Witness ==
    \E a \in Attempts : \E i \in 1..Len(events[a]) :
        /\ events[a][i].ev = "response"
        /\ events[a][i].error = Str("Some error occurred")
        /\ Len(Outcomes(a)) = 1

(***************************************************************************)
(* C6: when the transport returns a body that does not parse as JSON,      *)
(* userProfile calls done with the parse fault itself and no profile, and  *)
(* authenticate reports Error and never calls verify.                      *)
(***************************************************************************)
C6_ParseFailureSurfaced ==
    \A a \in Attempts : \A i \in 1..Len(events[a]) :
        ( /\ events[a][i].ev = "response"
          /\ ~Truthy(events[a][i].error)
          /\ events[a][i].body = Str("not a JSON") ) =>
            /\ Len(events[a]) = i + 2
            /\ events[a][i + 1].ev = "done"
            /\ events[a][i + 1].error.class = "SyntaxError"
            /\ events[a][i + 1].profile = Undefined
            /\ events[a][i + 2] = [ev |-> "error", err |-> events[a][i + 1].error]
            /\ VerifyCalls(a) = << >>
            /\ pc[a] = "done"

\* The transport has answered an attempt's signed GET with 'not a JSON'.
C6_Witness ==
    \E a \in Attempts : \E i \in 1..Len(events[a]) :
        /\ events[a][i].ev = "response"
        /\ ~Truthy(events[a][i].error)
        /\ events[a][i].body = Str("not a JSON")
        /\ Len(Outcomes(a)) = 1

(***************************************************************************)
(* C7 and C8: the credentials of a request.                                *)
(***************************************************************************)
\* The body's value when the body carries the field, otherwise the query's.
BodyElseQuery(r, key) ==
    IF InBody(r, key) THEN r.body.props[key]
    ELSE IF r.query # Undefined THEN r.query.props[key]
    ELSE Undefined

NonEmpty(v) == v # Undefined /\ v # Str("")

\* The body's value when the body carries a non-empty one, otherwise the
\* query's.
NonEmptyBodyElseQuery(r, key) ==
    IF InBody(r, key) /\ NonEmpty(r.body.props[key]) THEN r.body.props[key]
    ELSE IF r.query # Undefined THEN r.query.props[key]
    ELSE Undefined

\* The token and the secret of a call of the verify callback.
VerifyToken(c) == c.args[Len(c.args) - 3]
VerifySecret(c) == c.args[Len(c.args) - 2]

\* An attempt that fetched passed (token, secret) to the profile fetch, to
\* the transport and to every call of the verify callback.
Uses(a, token, secret) ==
    /\ events[a][1].ev = "loadUserProfile"
    /\ events[a][1].token = token /\ events[a][1].tokenSecret = secret
    /\ events[a][2].ev = "get"
    /\ events[a][2].token = token /\ events[a][2].tokenSecret = secret
    /\ \A i \in 1..Len(events[a]) :
           events[a][i].ev = "verify" =>
               VerifyToken(events[a][i]) = token /\ VerifySecret(events[a][i]) = secret

(***************************************************************************)
(* C7, as stated: for token and tokenSecret, each on its own, authenticate *)
(* uses the body's value under the configured field name when the body     *)
(* carries one and the query's value otherwise, in the profile fetch and   *)
(* in the call of the verify callback.                                     *)
(***************************************************************************)
C7_BodyValueWhenCarried ==
    \A a \in Attempts :
        Gets(a) # << >> =>
            Uses(a, BodyElseQuery(req[a], self._oauthTokenField),
                    BodyElseQuery(req[a], self._oauthTokenSecretField))

(***************************************************************************)
(* C7, amended: for token and tokenSecret, each on its own, authenticate   *)
(* uses the body's value under the configured field name when the body     *)
(* carries a non-empty one and the query's value otherwise, in the profile *)
(* fetch and in the call of the verify callback.                           *)
(***************************************************************************)
C7_NonEmptyBodyValueFirst ==
    \A a \in Attempts :
        Gets(a) # << >> =>
            Uses(a, NonEmptyBodyElseQuery(req[a], self._oauthTokenField),
                    NonEmptyBodyElseQuery(req[a], self._oauthTokenSecretField))

\* Body and query carry different non-empty tokens and different non-empty
\* secrets, and the verify callback has been called.
C7_Witness ==
    \E a \in Attempts :
        /\ VerifyCalls(a) # << >>
        /\ InBody(req[a], self._oauthTokenField)
        /\ InQuery(req[a], self._oauthTokenField)
        /\ NonEmpty(req[a].body.props[self._oauthTokenField])
        /\ NonEmpty(req[a].query.props[self._oauthTokenField])
        /\ NonEmpty(req[a].body.props[self._oauthTokenSecretField])
        /\ NonEmpty(req[a].query.props[self._oauthTokenSecretField])
        /\ req[a].body.props[self._oauthTokenField]
               # req[a].query.props[self._oauthTokenField]
        /\ req[a].body.props[self._oauthTokenSecretField]
               # req[a].query.props[self._oauthTokenSecretField]

\* `u` is what precedes the first '-' of `t`, or all of `t` when it has none.
BeforeFirstDash(u, t) ==
    /\ \A i \in 1..Len(u) : SubSeq(u, i, i) # "-"
    /\ \/ u = t
       \/ Len(t) > Len(u) /\ SubSeq(t, 1, Len(u) + 1) = u \o "-"

(***************************************************************************)
(* C8, as stated: params.user_id of the profile fetch is the body's value  *)
(* under the configured user-id field, else the query's value under that   *)
(* field, else what precedes the first '-' of the token (the whole token   *)
(* when it has no '-'); it is never absent when a token is present.        *)
(***************************************************************************)
C8_UserIdWhenCarried ==
    \A a \in Attempts :
        Gets(a) # << >> =>
            LET userId == events[a][1].params.props.user_id
                field == self._userIdField
            IN  /\ userId # Undefined
                /\ IF InBody(req[a], field) THEN userId = req[a].body.props[field]
                   ELSE IF InQuery(req[a], field) THEN userId = req[a].query.props[field]
                   ELSE /\ userId.type = "string"
                        /\ BeforeFirstDash(userId.val, events[a][1].token.val)

(***************************************************************************)
(* C8, amended: params.user_id of the profile fetch is the body's value    *)
(* under the configured user-id field when that is non-empty, else the     *)
(* query's value under that field when that is non-empty, else what        *)
(* precedes the first '-' of the token (the whole token when it has no     *)
(* '-'); it is never absent when a token is present.                       *)
(***************************************************************************)
C8_UserIdFirstNonEmpty ==
    \A a \in Attempts :
        Gets(a) # << >> =>
            LET userId == events[a][1].params.props.user_id
                field == self._userIdField
            IN  /\ userId # Undefined
                /\ IF InBody(req[a], field) /\ NonEmpty(req[a].body.props[field])
                       THEN userId = req[a].body.props[field]
                   ELSE IF InQuery(req[a], field) /\ NonEmpty(req[a].query.props[field])
                       THEN userId = req[a].query.props[field]
                   ELSE /\ userId.type = "string"
                        /\ BeforeFirstDash(userId.val, events[a][1].token.val)

\* A request that carries no user id and the token 'a-' has been fetched
\* for with the user id 'a'.
C8_Witness ==
    \E a \in Attempts :
        /\ Gets(a) # << >>
        /\ ~InBody(req[a], self._userIdField)
        /\ ~InQuery(req[a], self._userIdField)
        /\ events[a][1].token = Str("a-")
        /\ events[a][1].params.props.user_id = Str("a")

(***************************************************************************)
(* C9: the verify callback is called with (request, token, tokenSecret,    *)
(* profile, verified) when passReqToCallback is configured and with        *)
(* (token, tokenSecret, profile, verified) otherwise, the token and the    *)
(* secret being the ones extracted from the request and the profile the    *)
(* one userProfile handed over.                                            *)
(***************************************************************************)
C9_VerifyArguments ==
    \A a \in Attempts : \A i \in 1..Len(events[a]) :
        events[a][i].ev = "verify" =>
            LET token == NonEmptyBodyElseQuery(req[a], self._oauthTokenField)
                secret == NonEmptyBodyElseQuery(req[a], self._oauthTokenSecretField)
                profile == events[a][i - 1].profile
                verified == [type |-> "function", name |-> "verified"]
            IN  /\ events[a][i - 1].ev = "done"
                /\ ~Truthy(events[a][i - 1].error)
                /\ profile.type = "object"
                /\ events[a][i].args =
                       IF self._passReqToCallback = Bool(TRUE)
                           THEN <<req[a], token, secret, profile, verified>>
                           ELSE <<token, secret, profile, verified>>

\* Under passReqToCallback the verify callback has been called with the
\* request first.
C9_Witness ==
    \E a \in Attempts : \E i \in 1..Len(events[a]) :
        /\ events[a][i].ev = "verify"
        /\ self._passReqToCallback = Bool(TRUE)
        /\ Len(events[a][i].args) = 5
        /\ events[a][i].args[1] = req[a]

(***************************************************************************)
(* C10: the query parameters userProfile adds to the profile URL follow    *)
(* from the configuration alone: user_id exactly when the path ends with   *)
(* '/users/show.json', include_email=true exactly when includeEmail is     *)
(* set, skip_status=true exactly when includeStatus is disabled,           *)
(* include_entities=false exactly when includeEntities is disabled; none   *)
(* under the default configuration.                                        *)
(***************************************************************************)
EndsWith(s, t) == Len(s) >= Len(t) /\ SubSeq(s, Len(s) - Len(t) + 1, Len(s)) = t

C10_QueryFromConfiguration ==
    \A a \in Attempts : \A i \in 1..Len(events[a]) :
        events[a][i].ev = "get" =>
            LET url == events[a][i].url
                names == {p[1] : p \in url.query}
            IN  /\ url.pathname = self._userProfileURL
                /\ "user_id" \in names <=> EndsWith(url.pathname, "/users/show.json")
                /\ "include_email" \in names <=> self._includeEmail = Bool(TRUE)
                /\ "skip_status" \in names <=> self._includeStatus = Bool(FALSE)
                /\ "include_entities" \in names <=> self._includeEntities = Bool(FALSE)
                /\ \A p \in url.query :
                       /\ p[1] \in {"include_email", "skip_status"} => p[2] = Bool(TRUE)
                       /\ p[1] = "include_entities" => p[2] = Bool(FALSE)
                /\ self = Construct(Options(<< >>)) => url.query = {}

(***************************************************************************)
(* C11: for every provider JSON object that parses, the profile's id is a  *)
(* string: the provider's id_str whenever the JSON carries one, also when  *)
(* a numeric id is present too, and the decimal string of the numeric id   *)
(* the JSON writes when it carries no id_str.                              *)
(***************************************************************************)
\* The provider document whose text the transport answered with.
DocumentOf(body) == CHOOSE doc \in Documents : body = Str(Serialize(doc))

C11_IdIsProviderIdentifier ==
    \A a \in Attempts : \A i \in 1..Len(events[a]) :
        ( /\ events[a][i].ev = "response"
          /\ ~Truthy(events[a][i].error)
          /\ \E doc \in Documents : events[a][i].body = Str(Serialize(doc)) ) =>
            LET doc == DocumentOf(events[a][i].body)
                profile == events[a][i + 1].profile
            IN  /\ events[a][i + 1].ev = "done"
                /\ profile.type = "object"
                /\ profile.props.id.type = "string"
                /\ doc.id_str # Undefined => profile.props.id = doc.id_str
                /\ (doc.id_str = Undefined /\ doc.id # Undefined) =>
                       profile.props.id = doc.id

\* The part of C11 that is about the choice between the two identifiers:
\* id_str when the JSON carries one, otherwise String(json.id) of the number
\* JSON.parse read.
C11_PrefersIdStr ==
    \A a \in Attempts : \A i \in 1..Len(events[a]) :
        ( /\ events[a][i].ev = "response"
          /\ ~Truthy(events[a][i].error)
          /\ \E doc \in Documents : events[a][i].body = Str(Serialize(doc)) ) =>
            LET doc == DocumentOf(events[a][i].body)
                profile == events[a][i + 1].profile
            IN  /\ profile.props.id.type = "string"
                /\ doc.id_str # Undefined => profile.props.id = doc.id_str
                /\ (doc.id_str = Undefined /\ doc.id # Undefined) =>
                       profile.props.id = Str(profile.props._json.props.id.val)

(***************************************************************************)
(* C12: authenticate and userProfile write no field of the instance, and   *)
(* under every interleaving of concurrent attempts on one instance each    *)
(* attempt gets the outcome it would get alone: the outcome its own        *)
(* request, its own transport response and its own verify result decide,   *)
(* with its own credentials in every call it makes; attempts with the same *)
(* request, response and verify result end in the same outcome class.      *)
(***************************************************************************)
IsResponse(e) == e.ev = "response"
Responses(a) == SelectSeq(events[a], IsResponse)
IsVerified(e) == e.ev = "verified"
VerifiedCalls(a) == SelectSeq(events[a], IsVerified)

\* The outcome classes an attempt has reported, in order.
Kinds(a) == [i \in 1..Len(Outcomes(a)) |-> Outcomes(a)[i].ev]

\* The outcome classes of an attempt on request r alone, once the transport
\* has given the answers `responses` and the verify callback has called back
\* with `verifieds`.
Alone(r, tokenField, responses, verifieds) ==
    IF HasDenied(r) THEN <<"fail">>
    ELSE IF ~NonEmpty(NonEmptyBodyElseQuery(r, tokenField)) THEN <<"fail">>
    ELSE IF responses = << >> THEN << >>
    ELSE IF Truthy(responses[1].error) THEN <<"error">>
    ELSE IF verifieds = << >> THEN << >>
    ELSE IF Truthy(verifieds[1].error) THEN <<"error">>
    ELSE IF Truthy(verifieds[1].user) THEN <<"success">>
    ELSE <<"fail">>

C12_OwnOutcome ==
    \A a \in Attempts :
        pc[a] # "idle" =>
            /\ Kinds(a) = Alone(req[a], self._oauthTokenField,
                                Responses(a), VerifiedCalls(a))
            /\ Gets(a) # << >> =>
                   Uses(a, NonEmptyBodyElseQuery(req[a], self._oauthTokenField),
                           NonEmptyBodyElseQuery(req[a], self._oauthTokenSecretField))
            /\ \A i \in 1..Len(events[a]) :
                   (events[a][i].ev = "verify" /\ Len(events[a][i].args) = 5) =>
                       events[a][i].args[1] = req[a]
            /\ \A b \in Attempts :
                   ( /\ req[b] = req[a]
                     /\ Responses(b) = Responses(a)
                     /\ VerifiedCalls(b) = VerifiedCalls(a) ) => Kinds(b) = Kinds(a)

C12_IsolatedAttempts == [](C12_OwnOutcome) /\ [][self' = self]_vars

\* One attempt has been verified and reported success while another, on a
\* different request with a different token, is waiting for its verify
\* callback to call back.
C12_Witness ==
    \E a, b \in Attempts :
        /\ a # b
        /\ pc[a] = "verifying"
        /\ pc[b] = "done"
        /\ Kinds(b) = <<"success">>
        /\ events[a][1].ev = "loadUserProfile"
        /\ events[b][1].ev = "loadUserProfile"
        /\ events[a][1].token # events[b][1].token

(***************************************************************************)
(* C13: userProfile calls its done callback exactly once per call, for     *)
(* every transport response, also when done (and through it the verify     *)
(* callback) raises while it is handed the profile: no second call of done *)
(* follows, and no second outcome is added to the attempt.                 *)
(***************************************************************************)
C13_DoneOncePerCall ==
    \A a \in Attempts :
        /\ Len(DoneCalls(a)) = Len(Responses(a))
        /\ \A i \in 1..Len(events[a]) :
               (events[a][i].ev = "done" /\ events[a][i].profile # Undefined) =>
                   /\ \A j \in (i + 1)..Len(events[a]) : events[a][j].ev # "done"
                   /\ Len(Outcomes(a)) <= 1

(***************************************************************************)
(* C14: the missing-credentials Fail is decided by the token alone: a      *)
(* request that is not denied and carries a token but no token secret, in  *)
(* body or query, is not failed by authenticate; it goes on to exactly one *)
(* profile fetch, issued with the absent secret, and its outcome is the    *)
(* one the fetch result and the verify callback decide.                    *)
(***************************************************************************)
\* The request is not denied and carries a token but no token secret.
TokenWithoutSecret(r) ==
    /\ ~HasDenied(r)
    /\ NonEmpty(NonEmptyBodyElseQuery(r, self._oauthTokenField))
    /\ ~InBody(r, self._oauthTokenSecretField)
    /\ ~InQuery(r, self._oauthTokenSecretField)

C14_TokenAloneDecides ==
    \A a \in Attempts :
        (pc[a] # "idle" /\ TokenWithoutSecret(req[a])) =>
            /\ events[a][1].ev = "loadUserProfile"
            /\ events[a][1].tokenSecret = Undefined
            /\ Len(Gets(a)) = 1
            /\ Gets(a)[1].token = NonEmptyBodyElseQuery(req[a], self._oauthTokenField)
            /\ Gets(a)[1].tokenSecret = Undefined
            /\ \A i \in 1..Len(events[a]) :
                   events[a][i].ev = "fail" => i > 2 /\ events[a][i - 1].ev = "verified"
            /\ pc[a] = "fetching" => Outcomes(a) = << >>
            /\ pc[a] = "done" =>
                   /\ Len(Responses(a)) = 1
                   /\ Truthy(Responses(a)[1].error) => Kinds(a) = <<"error">>
                   /\ ~Truthy(Responses(a)[1].error) =>
                          /\ Len(VerifyCalls(a)) = 1
                          /\ VerifySecret(VerifyCalls(a)[1]) = Undefined
                          /\ Kinds(a) = Alone(req[a], self._oauthTokenField,
                                              Responses(a), VerifiedCalls(a))

\* A request with a token and no token secret has been fetched for, handed
\* to the verify callback with the absent secret, and reported success.
C14_Witness ==
    \E a \in Attempts :
        /\ pc[a] = "done"
        /\ TokenWithoutSecret(req[a])
        /\ Len(Gets(a)) = 1
        /\ Gets(a)[1].tokenSecret = Undefined
        /\ Len(VerifyCalls(a)) = 1
        /\ Kinds(a) = <<"success">>

====
